---- MODULE Spec2Model ----
(***************************************************************************)
(* Model of .github/codex-refactor.py: the nightly refactor script that    *)
(* syncs the base branch, snapshots the tracked source files, asks a model *)
(* for a unified diff, applies it on a new branch, commits and pushes.     *)
(*                                                                         *)
(* Strings are sequences of one-character strings, so that strip,          *)
(* splitlines, startswith, suffix and shlex.quote are computed and not     *)
(* assumed.                                                                *)
(***************************************************************************)
EXTENDS Integers, Sequences, FiniteSets, TLC

VARIABLES
    pc,         \* position of the interpreter in the script
    env,        \* process environment: key, BASE_BRANCH, CHANGE_BRANCH
    terminal,   \* "running" or the way the process ended
    exitArg,    \* argument of sys.exit (0 on normal return, 1 on a traceback)
    trace,      \* subprocesses, model requests and file writes, in order
    msgs,       \* what main() itself printed
    files,      \* main(): files
    summary,    \* main(): summary (the parts of the snapshot)
    diff,       \* main(): diff
    statusOut,  \* value returned by git("status --porcelain", check=False)
    repo,       \* the working directory's version-control state
    fpc,        \* position of a single call of a function under test
    fin,        \* its arguments
    fout        \* its result

vars == <<pc, env, terminal, exitArg, trace, msgs, files, summary, diff,
          statusOut, repo, fpc, fin, fout>>

mainVars == <<pc, env, terminal, exitArg, trace, msgs, files, summary, diff,
              statusOut, repo>>

fnVars == <<fpc, fin, fout>>

(***************************************************************************)
(* Bounds of the model.                                                    *)
(***************************************************************************)
MaxListing == 2     \* longest `git ls-files` listing given to list_files
MaxFilesLen == 3    \* longest file list given to repo_map
MaxCap == 3         \* largest max_per_file_chars and max_files tried

(***************************************************************************)
(* Python string primitives.                                               *)
(***************************************************************************)
Whitespace == {" ", "\n", "\t", "\r"}

RECURSIVE lstrip(_)
lstrip(s) ==
    IF s # <<>> /\ Head(s) \in Whitespace THEN lstrip(Tail(s)) ELSE s

RECURSIVE rstrip(_)
rstrip(s) ==
    IF s # <<>> /\ s[Len(s)] \in Whitespace
    THEN rstrip(SubSeq(s, 1, Len(s) - 1))
    ELSE s

strip(s) == rstrip(lstrip(s))

\* s[:n] for n >= 0
Slice(s, n) == SubSeq(s, 1, IF n < Len(s) THEN n ELSE Len(s))

startswith(s, prefixes) ==
    \E p \in prefixes : Len(p) <= Len(s) /\ SubSeq(s, 1, Len(p)) = p

\* sub in s
Contains(s, sub) ==
    \E i \in 1..(Len(s) - Len(sub) + 1) : SubSeq(s, i, i + Len(sub) - 1) = sub

\* s.rfind(c): the last index of c in s (1-based), 0 when absent
rfind(s, c) ==
    LET hits == {i \in 1..Len(s) : s[i] = c}
    IN IF hits = {} THEN 0 ELSE CHOOSE i \in hits : \A j \in hits : j <= i

LowerChar(c) ==
    CASE c = "P" -> "p"
      [] c = "Y" -> "y"
      [] c = "J" -> "j"
      [] c = "S" -> "s"
      [] c = "C" -> "c"
      [] OTHER -> c

lower(s) == [i \in 1..Len(s) |-> LowerChar(s[i])]

\* out.splitlines(): lines end at "\n"; no empty last line
RECURSIVE splitlines(_)
splitlines(s) ==
    IF s = <<>> THEN <<>>
    ELSE LET nl == {i \in 1..Len(s) : s[i] = "\n"}
         IN IF nl = {} THEN <<s>>
            ELSE LET k == CHOOSE i \in nl : \A j \in nl : i <= j
                 IN <<SubSeq(s, 1, k - 1)>> \o splitlines(SubSeq(s, k + 1, Len(s)))


(***************************************************************************)
(* run, lines 10-17.  rc and out are the subprocess's exit code and        *)
(* captured stdout.  exited: sys.exit(code) was called and run() did not   *)
(* return; otherwise value is what run() returned.                         *)
(***************************************************************************)
RunIgnoringCheck(rc, out, check) ==
    IF rc # 0
    THEN [exited |-> TRUE, code |-> rc, value |-> <<>>]
    ELSE [exited |-> FALSE, code |-> 0, value |-> strip(out)]

RunWithoutStrip(rc, out, check) ==
    IF check /\ rc # 0
    THEN [exited |-> TRUE, code |-> rc, value |-> <<>>]
    ELSE [exited |-> FALSE, code |-> 0, value |-> out]

run(rc, out, check) ==
    IF check /\ rc # 0
    THEN [exited |-> TRUE, code |-> rc, value |-> <<>>]
    ELSE [exited |-> FALSE, code |-> 0, value |-> strip(out)]

\* Exit codes a subprocess can report to subprocess.run: 0, a failure code,
\* git's fatal code, and -N for a child killed by signal N.
RetCodes == {0, 1, 128, 0 - 9}

\* What the parent of the script sees of sys.exit(code).
ExitStatus(code) == code % 256

(***************************************************************************)
(* shlex.quote, used at lines 77, 91 and 101.                              *)
(***************************************************************************)
SafeChars ==
    {"a", "b", "c", "d", "e", "f", "m", "o", "r", "s", "t", "v", "x", "T",
     "/", "-", ".", "_"}

RECURSIVE EscapeQuotes(_)
EscapeQuotes(s) ==
    IF s = <<>> THEN <<>>
    ELSE (IF Head(s) = "'" THEN <<"'", "\"", "'", "\"", "'">> ELSE <<Head(s)>>)
         \o EscapeQuotes(Tail(s))

shlex_quote(s) ==
    IF s = <<>> THEN <<"'", "'">>
    ELSE IF \A i \in 1..Len(s) : s[i] \in SafeChars THEN s
    ELSE <<"'">> \o EscapeQuotes(s) \o <<"'">>

(***************************************************************************)
(* should_include_file and list_files, lines 22-31.                        *)
(***************************************************************************)
incl_ext ==
    { <<".", "j", "s">>,
      <<".", "t", "s">>,
      <<".", "t", "s", "x">>,
      <<".", "p", "y">>,
      <<".", "r", "b">>,
      <<".", "g", "o">>,
      <<".", "j", "a", "v", "a">>,
      <<".", "c", "s">>,
      <<".", "c", "p", "p">>,
      <<".", "c">>,
      <<".", "h">>,
      <<".", "h", "p", "p">>,
      <<".", "r", "s">>,
      <<".", "s", "w", "i", "f", "t">>,
      <<".", "p", "h", "p">>,
      <<".", "s", "h">>,
      <<".", "y", "m", "l">>,
      <<".", "y", "a", "m", "l">>,
      <<".", "j", "s", "o", "n">>,
      <<".", "m", "d">>,
      <<".", "h", "t", "m", "l">>,
      <<".", "c", "s", "s">> }

ExcludedParts ==
    { <<"n", "o", "d", "e", "_", "m", "o", "d", "u", "l", "e", "s", "/">>,
      <<".", "g", "i", "t", "/">>,
      <<"v", "e", "n", "d", "o", "r", "/">> }

\* pathlib.PurePath.name: the final path component
PathName(path) == SubSeq(path, rfind(path, "/") + 1, Len(path))

\* pathlib.PurePath.suffix: from the last dot of the name, unless the dot is
\* the name's first or last character
suffix(path) ==
    LET name == PathName(path)
        i == rfind(name, ".")
    IN IF 1 < i /\ i < Len(name) THEN SubSeq(name, i, Len(name)) ELSE <<>>

should_include_file(path) ==
    /\ lower(suffix(path)) \in incl_ext
    /\ \A x \in ExcludedParts : ~Contains(path, x)

\* [f for f in out.splitlines() if should_include_file(f)]
RECURSIVE Comprehension(_)
Comprehension(lines) ==
    IF lines = <<>> THEN <<>>
    ELSE (IF should_include_file(Head(lines)) THEN <<Head(lines)>> ELSE <<>>)
         \o Comprehension(Tail(lines))

\* list_files after git("ls-files") returned `out`
list_files(out) == Comprehension(splitlines(out))

\* stdout of `git ls-files` for a listing: one path per line
RECURSIVE LsFilesStdout(_)
LsFilesStdout(listing) ==
    IF listing = <<>> THEN <<>>
    ELSE Head(listing) \o <<"\n">> \o LsFilesStdout(Tail(listing))

\* Paths a listing is drawn from.  git prints a path with spaces as it is,
\* also when the space is its first or last character.
TestPaths ==
    { <<"a", ".", "p", "y">>,
      <<"a", ".", "P", "Y">>,
      <<"a", ".", "t", "x", "t">>,
      <<"n", "o", "d", "e", "_", "m", "o", "d", "u", "l", "e", "s", "/", "a", ".", "j", "s">>,
      <<"x", ".", "g", "i", "t", "/", "a", ".", "c">>,
      <<"m", "y", "v", "e", "n", "d", "o", "r", "/", "a", ".", "g", "o">>,
      <<"v", "e", "n", "d", "o", "r", ".", "p", "y">>,
      <<".", "g", "i", "t", "i", "g", "n", "o", "r", "e">>,
      <<"a", ".", "t", "a", "r", ".", "g", "z">>,
      <<"a", ".", "d", "/", "s", "h">>,
      <<"a", " ", "b", ".", "J", "s">>,
      <<" ", "a", ".", "p", "y">>,
      <<"z", ".", "m", "d", " ">> }

Listings == UNION {[1..n -> TestPaths] : n \in 0..MaxListing}


(***************************************************************************)
(* repo_map, lines 33-41.  `unreadable` is the set of paths whose          *)
(* read_text raises.  The result is the list `parts`, one entry per        *)
(* f"--- {fp} ---\n{text[:max_per_file_chars]}"; line 41 joins them.       *)
(***************************************************************************)
DefaultMaxPerFileChars == 4000
DefaultMaxFiles == 150

\* pathlib.Path(fp).read_text(...) of a readable file
read_text(fp) ==
    CASE fp = <<"a", ".", "p", "y">> -> <<"x", "=", "1", "\n", "y">>
      [] fp = <<"a", " ", "b", ".", "J", "s">> -> <<"j", "s">>
      [] OTHER -> <<>>

RECURSIVE RepoMapLoop(_, _, _)
RepoMapLoop(fs, max_per_file_chars, unreadable) ==
    IF fs = <<>> THEN <<>>
    ELSE (IF Head(fs) \in unreadable
          THEN <<>>
          ELSE <<[fp |-> Head(fs), text |-> Slice(read_text(Head(fs)), max_per_file_chars)]>>)
         \o RepoMapLoop(Tail(fs), max_per_file_chars, unreadable)

\* a read error ends the loop instead of skipping the file
RECURSIVE RepoMapLoopStopping(_, _, _)
RepoMapLoopStopping(fs, max_per_file_chars, unreadable) ==
    IF fs = <<>> \/ Head(fs) \in unreadable THEN <<>>
    ELSE <<[fp |-> Head(fs), text |-> Slice(read_text(Head(fs)), max_per_file_chars)]>>
         \o RepoMapLoopStopping(Tail(fs), max_per_file_chars, unreadable)

RepoMapStopping(fs, max_per_file_chars, max_files, unreadable) ==
    RepoMapLoopStopping(Slice(fs, max_files), max_per_file_chars, unreadable)

repo_map(fs, max_per_file_chars, max_files, unreadable) ==
    RepoMapLoop(Slice(fs, max_files), max_per_file_chars, unreadable)

\* Files a file list given to repo_map is drawn from
FilePool == {<<"a", ".", "p", "y">>, <<"a", " ", "b", ".", "J", "s">>, <<"v", "e", "n", "d", "o", "r", ".", "p", "y">>}

FileLists == UNION {[1..n -> FilePool] : n \in 0..MaxFilesLen}

(***************************************************************************)
(* build_prompts, lines 43-61: the fixed system prompt, and the fixed goal *)
(* followed by the snapshot.                                               *)
(***************************************************************************)
build_prompts(s) == [system |-> "system", user |-> <<"user_goal", s>>]

(***************************************************************************)
(* Module level, lines 5-8, and the inputs of a run.                       *)
(***************************************************************************)
DefaultBaseBranch == <<"m", "a", "s", "t", "e", "r">>
DefaultChangeBranch == <<"c", "o", "d", "e", "x", "/", "r", "e", "f", "a", "c", "t", "o", "r", "-", "T">>

BaseBranches == {DefaultBaseBranch, <<"r", "e", "l", " ", "1">>}
ChangeBranches == {DefaultChangeBranch, <<"i", "t", "'", "s">>}

\* output_text values the API can return (before line 74 strips them)
Responses ==
    { <<"d", "i", "f", "f", " ", "-", "-", "g", "i", "t", " ", "a", "/", "f", " ", "b", "/", "f", "\n">>,
      <<"\n", "-", "-", "-", " ", "a", "/", "f">>,
      <<"I", " ", "c", "a", "n", "n", "o", "t", " ", "h", "e", "l", "p", " ", "w", "i", "t", "h", " ", "t", "h", "a", "t", ".">>,
      <<"-", "-", "-">>,
      <<"S", "u", "r", "e", ":", " ", "d", "i", "f", "f", " ", "-", "-", "g", "i", "t">>,
      <<"D", "i", "f", "f", " ", "-", "-", "g", "i", "t", " ", "a", "/", "f">>,
      <<>> }

\* stdout of `git ls-files` in the runs of main()
MainListings ==
    { LsFilesStdout(<<<<"a", ".", "p", "y">>, <<"a", ".", "t", "x", "t">>, <<"a", " ", "b", ".", "J", "s">>>>), <<>> }

(***************************************************************************)
(* Line 86: diff.startswith(("diff --git", "--- "))                        *)
(***************************************************************************)
DiffHeaders ==
    { <<"d", "i", "f", "f", " ", "-", "-", "g", "i", "t">>,
      <<"-", "-", "-", " ">> }

IsUnifiedDiffLoose(d) == Contains(d, <<"d", "i", "f", "f", " ", "-", "-", "g", "i", "t">>) \/ startswith(d, {<<"-", "-", "-">>})

IsUnifiedDiff(d) == startswith(d, DiffHeaders)

(***************************************************************************)
(* The check argument of each Command Runner call of main(), lines 77-101: *)
(* only the status query passes check=False.                               *)
(***************************************************************************)
CheckArgApplyTolerant(op) == op \notin {"status", "apply"}

CheckArgAllChecked(op) == TRUE

CheckArgCommitTolerant(op) == op \notin {"status", "commit"}

CheckArg(op) == op # "status"

(***************************************************************************)
(* The version-control tool.  `git status --porcelain` prints one line per *)
(* staged change, unstaged change of a tracked file and untracked file     *)
(* that is not ignored; .codex.patch is such a file once line 93 wrote it. *)
(***************************************************************************)
PorcelainStdout(r) ==
    (IF r.staged THEN <<"M", " ", " ", "f", "\n">> ELSE <<>>)
    \o (IF r.unstaged THEN <<" ", "M", " ", "g", "\n">> ELSE <<>>)
    \o (IF r.patchWritten /\ ~r.patchIgnored
        THEN <<"?", "?", " ", ".", "c", "o", "d", "e", "x", ".", "p", "a", "t", "c", "h", "\n">> ELSE <<>>)


(***************************************************************************)
(* main(), lines 76-102, and the module-level code that runs before it.    *)
(***************************************************************************)
patch_file == <<".", "c", "o", "d", "e", "x", ".", "p", "a", "t", "c", "h">>
CommitMessage == <<"N", "i", "g", "h", "t", "l", "y", " ", "a", "u", "t", "o", "m", "a", "t", "e", "d", " ", "r", "e", "f", "a", "c", "t", "o", "r", " ", "(", "C", "o", "d", "e", "x", ")">>
PreviewChars == 2000

NoArg == <<>>

Issued(op, arg, rc) ==
    Append(trace, [op |-> op, arg |-> arg, check |-> CheckArg(op), rc |-> rc])

Said(text, data) == Append(msgs, [text |-> text, data |-> data])

\* sys.exit(code) inside run(), line 16
Exits(code) ==
    /\ pc' = "halt"
    /\ terminal' = "abort"
    /\ exitArg' = code

\* main() returns or the interpreter dies of an uncaught exception
Ends(how, code) ==
    /\ pc' = "halt"
    /\ terminal' = how
    /\ exitArg' = code

Init ==
    /\ pc = "import"
    /\ env \in [key : BOOLEAN, BASE_BRANCH : BaseBranches, CHANGE_BRANCH : ChangeBranches]
    /\ terminal = "running"
    /\ exitArg = 0
    /\ trace = <<>>
    /\ msgs = <<>>
    /\ files = <<>>
    /\ summary = <<>>
    /\ diff = <<>>
    /\ statusOut = <<>>
    /\ repo \in [branch : {NoArg}, created : {NoArg}, pushed : {NoArg},
                 staged : {FALSE}, unstaged : BOOLEAN,
                 patchWritten : {FALSE}, patchText : {NoArg},
                 patchIgnored : BOOLEAN, commits : {0}]
    /\ fpc = "unused"
    /\ fin = <<>>
    /\ fout = <<>>

\* the key read with os.getenv, like the three settings above it
ImportWithGetenv ==
    /\ pc = "import"
    /\ pc' = "checkout_base"
    /\ UNCHANGED <<terminal, exitArg>>
    /\ UNCHANGED <<env, trace, msgs, files, summary, diff, statusOut, repo, fnVars>>

\* lines 5-8: os.environ["OPENAI_API_KEY"] raises KeyError when the key is unset
Import ==
    /\ pc = "import"
    /\ IF env.key
       THEN pc' = "checkout_base" /\ UNCHANGED <<terminal, exitArg>>
       ELSE Ends("config", 1)
    /\ UNCHANGED <<env, trace, msgs, files, summary, diff, statusOut, repo, fnVars>>

\* line 77
CheckoutBase ==
    /\ pc = "checkout_base"
    /\ \E rc \in RetCodes :
         LET r == run(rc, <<>>, CheckArg("checkout")) IN
         /\ trace' = Issued("checkout", shlex_quote(env.BASE_BRANCH), rc)
         /\ repo' = IF rc = 0 THEN [repo EXCEPT !.branch = env.BASE_BRANCH] ELSE repo
         /\ IF r.exited
            THEN Exits(r.code)
            ELSE pc' = "pull" /\ UNCHANGED <<terminal, exitArg>>
    /\ UNCHANGED <<env, msgs, files, summary, diff, statusOut, fnVars>>

\* line 78
Pull ==
    /\ pc = "pull"
    /\ \E rc \in RetCodes :
         LET r == run(rc, <<>>, CheckArg("pull")) IN
         /\ trace' = Issued("pull", NoArg, rc)
         /\ IF r.exited
            THEN Exits(r.code)
            ELSE pc' = "list_files" /\ UNCHANGED <<terminal, exitArg>>
    /\ UNCHANGED <<env, msgs, files, summary, diff, statusOut, repo, fnVars>>

\* line 80
ListFiles ==
    /\ pc = "list_files"
    /\ \E rc \in RetCodes, out \in MainListings :
         LET r == run(rc, out, CheckArg("ls-files")) IN
         /\ trace' = Issued("ls-files", NoArg, rc)
         /\ IF r.exited
            THEN Exits(r.code) /\ UNCHANGED files
            ELSE /\ pc' = "repo_map"
                 /\ files' = list_files(r.value)
                 /\ UNCHANGED <<terminal, exitArg>>
    /\ UNCHANGED <<env, msgs, summary, diff, statusOut, repo, fnVars>>

\* lines 81-83
RepoMap ==
    /\ pc = "repo_map"
    /\ \E unreadable \in {{}, {files[i] : i \in 1..(IF files = <<>> THEN 0 ELSE 1)}} :
         summary' = build_prompts(
                      repo_map(files, DefaultMaxPerFileChars, DefaultMaxFiles, unreadable))
    /\ pc' = "call_openai"
    /\ UNCHANGED <<env, terminal, exitArg, trace, msgs, files, diff, statusOut, repo, fnVars>>

\* line 84 and call_openai, lines 63-74.  The import or the request may raise;
\* nothing catches it, so the interpreter prints a traceback and exits 1.
CallOpenAI ==
    /\ pc = "call_openai"
    /\ \E outcome \in {"import_error", "api_error", "ok"}, raw \in Responses :
         /\ trace' = IF outcome = "import_error" THEN trace
                     ELSE Issued("request", NoArg, 0)
         /\ IF outcome = "ok"
            THEN /\ diff' = strip(raw)
                 /\ pc' = "check_diff"
                 /\ UNCHANGED <<terminal, exitArg>>
            ELSE Ends("crash", 1) /\ UNCHANGED diff
    /\ UNCHANGED <<env, msgs, files, summary, statusOut, repo, fnVars>>

\* lines 86-89
CheckDiff ==
    /\ pc = "check_diff"
    /\ IF ~IsUnifiedDiff(diff)
       THEN /\ msgs' = Append(Said("Model did not return a unified diff; exiting without changes.", NoArg),
                              [text |-> "", data |-> Slice(diff, PreviewChars)])
            /\ Ends("nondiff", 0)
       ELSE pc' = "checkout_new" /\ UNCHANGED <<msgs, terminal, exitArg>>
    /\ UNCHANGED <<env, trace, files, summary, diff, statusOut, repo, fnVars>>

\* line 91
CheckoutNew ==
    /\ pc = "checkout_new"
    /\ \E rc \in RetCodes :
         LET r == run(rc, <<>>, CheckArg("checkout -b")) IN
         /\ trace' = Issued("checkout -b", shlex_quote(env.CHANGE_BRANCH), rc)
         /\ repo' = IF rc = 0
                    THEN [repo EXCEPT !.branch = env.CHANGE_BRANCH,
                                      !.created = env.CHANGE_BRANCH]
                    ELSE repo
         /\ IF r.exited
            THEN Exits(r.code)
            ELSE pc' = "write_patch" /\ UNCHANGED <<terminal, exitArg>>
    /\ UNCHANGED <<env, msgs, files, summary, diff, statusOut, fnVars>>

\* lines 92-93
WritePatch ==
    /\ pc = "write_patch"
    /\ trace' = Append(trace, [op |-> "write", arg |-> patch_file, check |-> FALSE, rc |-> 0])
    /\ repo' = [repo EXCEPT !.patchWritten = TRUE, !.patchText = diff]
    /\ pc' = "apply"
    /\ UNCHANGED <<env, terminal, exitArg, msgs, files, summary, diff, statusOut, fnVars>>

\* line 94.  A patch that applies may leave the index as it was: with
\* --whitespace=fix, a hunk that only adds trailing whitespace does.
Apply ==
    /\ pc = "apply"
    /\ \E rc \in RetCodes, changed \in BOOLEAN :
         LET r == run(rc, <<>>, CheckArg("apply")) IN
         /\ trace' = Issued("apply", patch_file, rc)
         /\ repo' = IF rc = 0 THEN [repo EXCEPT !.staged = changed] ELSE repo
         /\ IF r.exited
            THEN Exits(r.code)
            ELSE pc' = "status" /\ UNCHANGED <<terminal, exitArg>>
    /\ UNCHANGED <<env, msgs, files, summary, diff, statusOut, fnVars>>

\* lines 96-98.  A failing status query prints its error on stderr.
Status ==
    /\ pc = "status"
    /\ \E rc \in RetCodes :
       \E out \in (IF rc = 0 THEN {PorcelainStdout(repo)} ELSE {<<>>, PorcelainStdout(repo)}) :
         LET r == run(rc, out, CheckArg("status")) IN
         /\ trace' = Issued("status", NoArg, rc)
         /\ IF r.exited
            THEN Exits(r.code) /\ UNCHANGED <<statusOut, msgs>>
            ELSE /\ statusOut' = r.value
                 /\ IF r.value = <<>>
                    THEN /\ msgs' = Said("No changes to commit.", NoArg)
                         /\ Ends("nochanges", 0)
                    ELSE /\ pc' = "commit"
                         /\ UNCHANGED <<msgs, terminal, exitArg>>
    /\ UNCHANGED <<env, files, summary, diff, repo, fnVars>>

\* line 100.  `git commit` fails when nothing is staged.
Commit ==
    /\ pc = "commit"
    /\ \E rc \in (IF repo.staged THEN RetCodes ELSE RetCodes \ {0}) :
         LET r == run(rc, <<>>, CheckArg("commit")) IN
         /\ trace' = Issued("commit", CommitMessage, rc)
         /\ repo' = IF rc = 0
                    THEN [repo EXCEPT !.staged = FALSE, !.commits = repo.commits + 1]
                    ELSE repo
         /\ IF r.exited
            THEN Exits(r.code)
            ELSE pc' = "push" /\ UNCHANGED <<terminal, exitArg>>
    /\ UNCHANGED <<env, msgs, files, summary, diff, statusOut, fnVars>>

\* lines 101-102
Push ==
    /\ pc = "push"
    /\ \E rc \in RetCodes :
         LET r == run(rc, <<>>, CheckArg("push")) IN
         /\ trace' = Issued("push", shlex_quote(env.CHANGE_BRANCH), rc)
         /\ repo' = IF rc = 0 THEN [repo EXCEPT !.pushed = env.CHANGE_BRANCH] ELSE repo
         /\ IF r.exited
            THEN Exits(r.code) /\ UNCHANGED msgs
            ELSE /\ msgs' = Said("Branch pushed; PR step will create/update the pull request.", NoArg)
                 /\ Ends("pushed", 0)
    /\ UNCHANGED <<env, files, summary, diff, statusOut, fnVars>>

Next ==
    \/ Import
    \/ CheckoutBase
    \/ Pull
    \/ ListFiles
    \/ RepoMap
    \/ CallOpenAI
    \/ CheckDiff
    \/ CheckoutNew
    \/ WritePatch
    \/ Apply
    \/ Status
    \/ Commit
    \/ Push

Spec == Init /\ [][Next]_vars

\* The script is one sequential process: while a statement remains and every
\* call returns, the next statement runs.
FairSpec == Spec /\ WF_vars(Next)


(***************************************************************************)
(* Single calls of run, list_files and repo_map on enumerated arguments.   *)
(***************************************************************************)
MainIdle ==
    /\ pc = "halt"
    /\ env = [key |-> TRUE, BASE_BRANCH |-> DefaultBaseBranch,
              CHANGE_BRANCH |-> DefaultChangeBranch]
    /\ terminal = "running"
    /\ exitArg = 0
    /\ trace = <<>>
    /\ msgs = <<>>
    /\ files = <<>>
    /\ summary = <<>>
    /\ diff = <<>>
    /\ statusOut = <<>>
    /\ repo = [branch |-> NoArg, created |-> NoArg, pushed |-> NoArg,
               staged |-> FALSE, unstaged |-> FALSE,
               patchWritten |-> FALSE, patchText |-> NoArg,
               patchIgnored |-> FALSE, commits |-> 0]

\* stdout values a command can print
Stdouts ==
    { <<>>,
      <<" ">>,
      <<"a">>,
      <<" ", "a">>,
      <<"a", " ">>,
      <<"\n", "a", " ", "b", "\n">>,
      <<" ", "\t", "\n">>,
      <<"M", " ", " ", "f", "\n">>,
      <<" ", "M", " ", "g", "\n">>,
      <<"a", "\n", " ", "b", " ", "\n", "\n">> }

Commands ==
    { <<"g", "i", "t", " ", "s", "t", "a", "t", "u", "s", " ", "-", "-", "p", "o", "r", "c", "e", "l", "a", "i", "n">>,
      <<"g", "i", "t", " ", "p", "u", "l", "l", " ", "-", "-", "f", "f", "-", "o", "n", "l", "y">>,
      <<"g", "i", "t", " ", "l", "s", "-", "f", "i", "l", "e", "s">> }

InitRun ==
    /\ MainIdle
    /\ fpc = "call"
    /\ fin \in [cmd : Commands, check : BOOLEAN, rc : RetCodes, out : Stdouts]
    /\ fout = <<>>

\* run(cmd, check), lines 10-17
CallRun ==
    /\ fpc = "call"
    /\ fout' = run(fin.rc, fin.out, fin.check)
    /\ fpc' = IF fout'.exited THEN "exited" ELSE "returned"
    /\ UNCHANGED <<fin, mainVars>>

SpecRun == InitRun /\ [][CallRun]_vars

InitListFiles ==
    /\ MainIdle
    /\ fpc = "call"
    /\ fin \in [listing : Listings, rc : {0, 128}]
    /\ fout = <<>>

\* list_files(), lines 29-31
CallListFiles ==
    /\ fpc = "call"
    /\ LET r == run(fin.rc, LsFilesStdout(fin.listing), TRUE) IN
         IF r.exited
         THEN fout' = <<>> /\ fpc' = "exited"
         ELSE fout' = list_files(r.value) /\ fpc' = "returned"
    /\ UNCHANGED <<fin, mainVars>>

SpecListFiles == InitListFiles /\ [][CallListFiles]_vars

InitRepoMap ==
    /\ MainIdle
    /\ fpc = "call"
    /\ fin \in [files : FileLists, max_per_file_chars : 0..MaxCap,
                max_files : 0..MaxCap, unreadable : SUBSET FilePool]
    /\ fout = <<>>

\* repo_map(files, max_per_file_chars, max_files), lines 33-41
CallRepoMap ==
    /\ fpc = "call"
    /\ fout' = repo_map(fin.files, fin.max_per_file_chars, fin.max_files, fin.unreadable)
    /\ fpc' = "returned"
    /\ UNCHANGED <<fin, mainVars>>

SpecRepoMap == InitRepoMap /\ [][CallRepoMap]_vars


(***************************************************************************)
(* Properties of a run of main().                                          *)
(***************************************************************************)
Halted == pc = "halt"

Last == trace[Len(trace)]

HasOp(op) == \E i \in 1..Len(trace) : trace[i].op = op

GitOps == {"checkout", "pull", "ls-files", "checkout -b", "apply", "status", "commit", "push"}

\* call_openai returned a response to main()
ResponseReceived == HasOp("request") /\ terminal # "crash"

HasPrefix(d, h) == Len(d) >= Len(h) /\ \A i \in 1..Len(h) : d[i] = h[i]

StartsWithDiffHeader(d) ==
    \/ HasPrefix(d, <<"d", "i", "f", "f", " ", "-", "-", "g", "i", "t">>)
    \/ HasPrefix(d, <<"-", "-", "-", " ">>)

SaidText(text) == \E i \in 1..Len(msgs) : msgs[i].text = text

\* C1: when the model response starts with neither "diff --git" nor "--- ",
\* the run issues no checkout -b, no write of .codex.patch, no apply, no
\* commit and no push, makes no such change to the repository, and ends
\* right after the check with exit status 0.
C1_NonDiffIsNoOp ==
    (ResponseReceived /\ ~StartsWithDiffHeader(diff)) =>
        /\ \A i \in 1..Len(trace) :
             trace[i].op \notin {"checkout -b", "write", "apply", "commit", "push"}
        /\ ~repo.patchWritten
        /\ repo.created = NoArg
        /\ repo.commits = 0
        /\ repo.pushed = NoArg
        /\ pc \in {"check_diff", "halt"}
        /\ (Halted => terminal = "nondiff" /\ ExitStatus(exitArg) = 0)

C1_Witness ==
    /\ Halted
    /\ terminal = "nondiff"
    /\ diff = <<"I", " ", "c", "a", "n", "n", "o", "t", " ", "h", "e", "l", "p", " ", "w", "i", "t", "h", " ", "t", "h", "a", "t", ".">>
    /\ Last.op = "request"

\* C2: when the change branch was created, the response was written to
\* .codex.patch, git apply succeeded and left the index and every tracked
\* file identical to HEAD (and the status query itself succeeded), the run
\* reports "No changes to commit.", issues neither commit nor push, and ends
\* with exit status 0.
C2_CleanTreeIsNoOp ==
    ( /\ repo.created # NoArg
      /\ repo.patchWritten
      /\ \E i \in 1..Len(trace) : trace[i].op = "apply" /\ trace[i].rc = 0
      /\ \A i \in 1..Len(trace) : trace[i].op = "status" => trace[i].rc = 0
      /\ ~repo.staged
      /\ ~repo.unstaged
      /\ repo.commits = 0 ) =>
        /\ ~HasOp("commit")
        /\ ~HasOp("push")
        /\ (Halted => /\ terminal = "nochanges"
                      /\ SaidText("No changes to commit.")
                      /\ ExitStatus(exitArg) = 0)

\* C3: when git apply exits non-zero, the process terminates with a non-zero
\* exit status and no status, commit or push is issued afterwards.
C3_ApplyFailureAborts ==
    \A i \in 1..Len(trace) :
        (trace[i].op = "apply" /\ trace[i].rc # 0) =>
            /\ i = Len(trace)
            /\ Halted
            /\ terminal = "abort"
            /\ ExitStatus(exitArg) # 0
            /\ repo.commits = 0
            /\ repo.pushed = NoArg

C3_Witness ==
    /\ Halted
    /\ terminal = "abort"
    /\ Last.op = "apply"
    /\ Last.rc = 1
    /\ exitArg = 1

\* C4: when OPENAI_API_KEY is unset the script fails before main() runs: no
\* subprocess, no model request, no file write, and a non-zero exit status.
C4_MissingKeyFailsAtStartup ==
    ~env.key =>
        /\ pc \in {"import", "halt"}
        /\ trace = <<>>
        /\ ~repo.patchWritten
        /\ (Halted => terminal = "config" /\ ExitStatus(exitArg) # 0)

C4_Witness ==
    /\ ~env.key
    /\ Halted
    /\ terminal = "config"

\* The commands of the run, in order (the write of the patch file is not one)
RECURSIVE CommandsIssued(_)
CommandsIssued(tr) ==
    IF tr = <<>> THEN <<>>
    ELSE (IF Head(tr).op = "write" THEN <<>> ELSE <<Head(tr).op>>)
         \o CommandsIssued(Tail(tr))

ArgOf(op) == (CHOOSE e \in {trace[i] : i \in 1..Len(trace)} : e.op = op).arg

\* C5: in a finished run where every checked command succeeded, the response
\* starts with a diff header and the porcelain status was non-empty, the
\* commands were issued once each in the order checkout, pull, ls-files,
\* request, checkout -b, apply, status, commit, push; the commit carries the
\* fixed message, the push names the branch that was created, and exactly
\* one commit was made.
C5_SuccessPathOrder ==
    ( /\ Halted
      /\ terminal \notin {"config", "crash"}
      /\ \A i \in 1..Len(trace) : trace[i].check => trace[i].rc = 0
      /\ StartsWithDiffHeader(diff)
      /\ statusOut # <<>> ) =>
        /\ CommandsIssued(trace) =
             <<"checkout", "pull", "ls-files", "request", "checkout -b",
               "apply", "status", "commit", "push">>
        /\ terminal = "pushed"
        /\ ArgOf("commit") = CommitMessage
        /\ ArgOf("push") = ArgOf("checkout -b")
        /\ repo.pushed = repo.created
        /\ repo.created = env.CHANGE_BRANCH
        /\ repo.commits = 1

C5_Witness ==
    /\ Halted
    /\ terminal = "pushed"
    /\ repo.commits = 1
    /\ repo.pushed = <<"i", "t", "'", "s">>
    /\ \A i \in 1..Len(trace) : trace[i].rc = 0

\* How a run of main() that halted, and whose model request returned, ended
EndedInOneOfFour ==
    \/ /\ terminal = "nondiff"
       /\ Last.op = "request"
       /\ ~StartsWithDiffHeader(diff)
       /\ ExitStatus(exitArg) = 0
    \/ /\ terminal = "nochanges"
       /\ Last.op = "status"
       /\ statusOut = <<>>
       /\ ExitStatus(exitArg) = 0
    \/ /\ terminal = "pushed"
       /\ Last.op = "push"
       /\ ExitStatus(exitArg) = 0
    \/ /\ terminal = "abort"
       /\ Last.op \in GitOps
       /\ Last.check
       /\ Last.rc # 0
       /\ exitArg = Last.rc
       /\ ExitStatus(exitArg) # 0

\* C6: every run halts, and a run of main() whose model request returned
\* halts as a no-op after a non-diff response, a no-op after an empty
\* status, a success after the push, or a fatal abort caused by a failing
\* call made with check=true; the exit status is 0 in the first three and
\* the failing subprocess's non-zero exit code in the fourth.
C6_HaltsInOneOfFour ==
    /\ <>Halted
    /\ []((Halted /\ terminal \notin {"config", "crash"}) => EndedInOneOfFour)

C6_Witness ==
    /\ Halted
    /\ terminal = "abort"
    /\ Last.op = "push"
    /\ exitArg = 128

\* C10: the status query is the only command issued with check=false; when
\* it exits non-zero with empty stdout the run ends as "no changes" with
\* exit status 0 and without commit or push, whereas a non-zero exit of any
\* other command ends the process at once with that exit code.
C10_OnlyStatusTolerated ==
    \A i \in 1..Len(trace) :
        trace[i].op \in GitOps =>
            /\ trace[i].check <=> (trace[i].op # "status")
            /\ (trace[i].op # "status" /\ trace[i].rc # 0) =>
                   /\ i = Len(trace)
                   /\ Halted
                   /\ terminal = "abort"
                   /\ exitArg = trace[i].rc
            /\ (trace[i].op = "status" /\ trace[i].rc # 0 /\ statusOut = <<>>) =>
                   /\ i = Len(trace)
                   /\ Halted
                   /\ terminal = "nochanges"
                   /\ ExitStatus(exitArg) = 0
                   /\ ~HasOp("commit")
                   /\ ~HasOp("push")

C10_Witness ==
    /\ Halted
    /\ terminal = "nochanges"
    /\ Last.op = "status"
    /\ Last.rc = 128
    /\ ~Last.check


(***************************************************************************)
(* Properties of single calls of run, list_files and repo_map.             *)
(***************************************************************************)
\* v is `out` without its leading and trailing whitespace
Trimmed(out, v) ==
    /\ \E i \in 1..(Len(out) + 1) : \E j \in 0..Len(out) :
         /\ \A k \in 1..(i - 1) : out[k] \in Whitespace
         /\ \A k \in (j + 1)..Len(out) : out[k] \in Whitespace
         /\ Len(v) = (IF j >= i THEN j - i + 1 ELSE 0)
         /\ \A k \in 1..Len(v) : v[k] = out[i + k - 1]
    /\ v # <<>> => (v[1] \notin Whitespace /\ v[Len(v)] \notin Whitespace)

\* C7: run(cmd, check) ends the process with the command's exit code, and
\* does not return, exactly when check is true and the exit code is
\* non-zero; in every other case it returns the command's stdout with the
\* surrounding whitespace trimmed.
C7_RunContract ==
    fpc # "call" =>
        IF fin.check /\ fin.rc # 0
        THEN /\ fpc = "exited"
             /\ fout.exited
             /\ fout.code = fin.rc
             /\ ExitStatus(fout.code) # 0
        ELSE /\ fpc = "returned"
             /\ ~fout.exited
             /\ Trimmed(fin.out, fout.value)

C7_Witness ==
    /\ fpc = "returned"
    /\ ~fin.check
    /\ fin.rc = 128
    /\ fin.out = <<"\n", "a", " ", "b", "\n">>
    /\ fout.value = <<"a", " ", "b">>

\* The extension of a path: the part of its last component from that
\* component's last dot, when the dot is neither its first nor its last
\* character
ExtensionOf(path, ext) ==
    \E k \in 2..(Len(path) - 1) :
        /\ path[k] = "."
        /\ path[k - 1] # "/"
        /\ \A m \in (k + 1)..Len(path) : path[m] \notin {".", "/"}
        /\ Len(ext) = Len(path) - k + 1
        /\ \A m \in 1..Len(ext) : ext[m] = LowerChar(path[k + m - 1])

Selected(path) ==
    /\ \E ext \in incl_ext : ExtensionOf(path, ext)
    /\ \A x \in ExcludedParts :
         \A i \in 1..Len(path) :
           \E m \in 1..Len(x) : i + m - 1 > Len(path) \/ path[i + m - 1] # x[m]

\* C8: list_files() returns exactly the paths of the `git ls-files` listing
\* whose lower-cased extension is in the allow-list and which contain none
\* of "node_modules/", ".git/", "vendor/", in the listing's order.
C8_ListFilesSelects ==
    fpc = "returned" => fout = SelectSeq(fin.listing, Selected)

Readable(fp) == fp \notin fin.unreadable

FirstFiles ==
    [i \in 1..(IF fin.max_files < Len(fin.files) THEN fin.max_files ELSE Len(fin.files))
       |-> fin.files[i]]

\* C9: the snapshot of repo_map(files, max_per_file_chars, max_files) has at
\* most max_files entries; its entries are the readable paths among the
\* first max_files of the list, in list order, none dropped; each entry
\* embeds the file's text cut to at most max_per_file_chars characters.
C9_RepoMapBounded ==
    fpc = "returned" =>
        /\ Len(fout) <= fin.max_files
        /\ [i \in 1..Len(fout) |-> fout[i].fp] = SelectSeq(FirstFiles, Readable)
        /\ \A i \in 1..Len(fout) :
             LET full == read_text(fout[i].fp) IN
             /\ Len(fout[i].text) <= fin.max_per_file_chars
             /\ Len(fout[i].text) <= Len(full)
             /\ Len(fout[i].text) < fin.max_per_file_chars => Len(fout[i].text) = Len(full)
             /\ \A k \in 1..Len(fout[i].text) : fout[i].text[k] = full[k]

C9_Witness ==
    /\ fpc = "returned"
    /\ Len(fin.files) = 3
    /\ fin.max_files = 2
    /\ fin.files[1] \in fin.unreadable
    /\ fin.files[2] \notin fin.unreadable
    /\ Len(fout) = 1
    /\ fout[1].fp = fin.files[2]
    /\ Len(fout[1].text) = fin.max_per_file_chars
    /\ Len(read_text(fout[1].fp)) > fin.max_per_file_chars

====
